---- MODULE Spec2Model ----
(***************************************************************************)
(* Cross-exchange normalization and funding-PnL aggregation of the trading *)
(* dashboard: DataProcessor.normalize_symbol / extract_price_multiplier,   *)
(* ExchangeClient.get_positions, update_dashboard_data (app.py), the delta *)
(* table and the arbitrage candidates of main (app.py), and the per-token  *)
(* funding metrics of display_funding_rates (funding_rates_updated.py and  *)
(* funding_rates.py).                                                      *)
(*                                                                         *)
(* Strings are sequences of one-character strings.  Python floats are      *)
(* modelled as exact rationals <<numerator, denominator>> (denominator >0, *)
(* lowest terms); float rounding is not modelled.  Funding rates are in    *)
(* units of 1e-4 (0.0001 is rate 1), so funding PnL is in units of 1e-4    *)
(* dollars.                                                                *)
(***************************************************************************)
EXTENDS Integers, Sequences, FiniteSets, TLC

VARIABLES
    \* ---- DataProcessor (SpecNorm) ----
    sym,        \* the input string handed to the normalizer
    ntok,       \* number of vocabulary tokens sym was built from
    norm,       \* result of the last call pair, or NoResult
    \* ---- update_dashboard_data (Spec) ----
    selected_exchanges,     \* the sidebar's multiselect, in selection order
    days,                   \* the time period selector
    all_positions,          \* locals of update_dashboard_data
    delta_exposure,
    total_funding_pnl,
    total_position_value,
    total_pnl,
    total_delta,
    exchange_index,         \* exchanges of the loop already processed
    pc,                     \* "loop" | "returned"
    log,                    \* this refresh: the positions each exchange delivered
                            \* and the position whose funding step raised (0: none)
    fetched,                \* raw position records delivered this refresh
    earlier_held,           \* a refresh before the current one returned positions
    \* ---- display_funding_rates, funding_rates_updated (SpecFunding) ----
    fr_days,                    \* the time period selector
    fr_all_positions,           \* all_positions
    total_exposure,
    total_funding,
    historical_funding_payments,
    fr_funding_intervals,       \* funding_intervals
    token_metrics,
    fr_index,                   \* exchanges of the first loop already processed
    fr_pc,                      \* "loop" | "shown"
    fr_fetched,                 \* raw position records delivered this run
    \* ---- main (app.py): the sections drawn from dashboard_data (SpecMain) ----
    show_dollar_value,          \* the toggle of the delta table
    delta_data,                 \* rows of the delta exposure table
    positions_by_token,         \* dict of dicts, in insertion order
    arb_pending,                \* exchange pairs the loops have yet to visit
    arb_opportunities,
    main_pc,                    \* "idle" | "table" | "pairs" | "done" |
                                \* "ZeroDivisionError"
    \* ---- display_funding_rates, funding_rates.py (SpecLegacyFunding) ----
    lg_selected_exchange,       \* the exchange selector
    lg_days,                    \* the time period selector
    lg_cached,                  \* what get_positions returns in this run
    lg_funding_payments,
    lg_total_exposure,
    lg_total_funding,
    lg_daily_funding,
    lg_delta_exposure,
    lg_delta_data,
    lg_token_metrics,
    lg_pc                       \* "idle" | "fetched" | "summary" | "shown" |
                                \* "ZeroDivisionError"

normVars == <<sym, ntok, norm>>
localVars == <<all_positions, delta_exposure, total_funding_pnl,
               total_position_value, total_pnl, total_delta>>
dashVars == <<selected_exchanges, days, all_positions, delta_exposure,
              total_funding_pnl, total_position_value, total_pnl, total_delta,
              exchange_index, pc, log, fetched, earlier_held>>
fundingVars == <<fr_days, fr_all_positions, total_exposure, total_funding,
                 historical_funding_payments, fr_funding_intervals,
                 token_metrics, fr_index, fr_pc, fr_fetched>>
mainVars == <<show_dollar_value, delta_data, positions_by_token, arb_pending,
              arb_opportunities, main_pc>>
legacyVars == <<lg_selected_exchange, lg_days, lg_cached, lg_funding_payments,
                lg_total_exposure, lg_total_funding, lg_daily_funding,
                lg_delta_exposure, lg_delta_data, lg_token_metrics, lg_pc>>
vars == <<sym, ntok, norm, selected_exchanges, days, all_positions,
          delta_exposure, total_funding_pnl, total_position_value, total_pnl,
          total_delta, exchange_index, pc, log, fetched, earlier_held,
          fr_days, fr_all_positions, total_exposure, total_funding,
          historical_funding_payments, fr_funding_intervals,
          token_metrics, fr_index, fr_pc, fr_fetched,
          show_dollar_value, delta_data, positions_by_token, arb_pending,
          arb_opportunities, main_pc,
          lg_selected_exchange, lg_days, lg_cached, lg_funding_payments,
          lg_total_exposure, lg_total_funding, lg_daily_funding,
          lg_delta_exposure, lg_delta_data, lg_token_metrics, lg_pc>>

\* ------------------------------------------------------------------ bounds
MaxTokens == 3
\* raw position records all exchanges deliver in one refresh
MaxPositions == 2

\* ----------------------------------------------------------------- strings
UpperChars ==
    {"A","B","C","D","E","F","G","H","I","J","K","L","M",
     "N","O","P","Q","R","S","T","U","V","W","X","Y","Z"}

\* str.isupper() of a one-character string
IsUpper(c) == c \in UpperChars

\* s.startswith(p)
StartsWith(s, p) ==
    /\ Len(p) <= Len(s)
    /\ SubSeq(s, 1, Len(p)) = p

\* s.endswith(p)
EndsWith(s, p) ==
    /\ Len(p) <= Len(s)
    /\ SubSeq(s, Len(s) - Len(p) + 1, Len(s)) = p

\* s[n:]
DropFirst(s, n) == IF n >= Len(s) THEN <<>> ELSE SubSeq(s, n + 1, Len(s))

\* s[:-n]   (n > 0)
DropLast(s, n) == IF n >= Len(s) THEN <<>> ELSE SubSeq(s, 1, Len(s) - n)

\* s.replace(v, ''): remove the non-overlapping occurrences of v, scanning
\* from the left
RECURSIVE Replace(_, _)
Replace(s, v) ==
    IF Len(s) < Len(v) THEN s
    ELSE IF StartsWith(s, v) THEN Replace(DropFirst(s, Len(v)), v)
    ELSE <<Head(s)>> \o Replace(Tail(s), v)

\* key in s   (substring test)
Contains(s, key) ==
    \E i \in 1..(Len(s) - Len(key) + 1) : SubSeq(s, i, i + Len(key) - 1) = key

\* apply s.replace(v, '') for each v of the list vs, in order
RECURSIVE StripAll(_, _)
StripAll(s, vs) ==
    IF vs = <<>> THEN s ELSE StripAll(Replace(s, Head(vs)), Tail(vs))

\* ----------------------------------------------------- DataProcessor
sUSDT == <<"U","S","D","T">>
sUSD == <<"U","S","D">>
s1000 == <<"1","0","0","0">>
s1M == <<"1","M">>
s1000000 == <<"1","0","0","0","0","0","0">>
sk == <<"k">>
sSOLAYER == <<"S","O","L","A","Y","E","R">>
sLAYER == <<"L","A","Y","E","R">>
sTRUMPOFFICIAL == <<"T","R","U","M","P","O","F","F","I","C","I","A","L">>
sTRUMP == <<"T","R","U","M","P">>

\* the variations list with the bare 'USD' entry moved ahead of 'USDT'
NormalizeVariationsShortestFirst ==
    << <<"/">> \o sUSDT \o <<":">> \o sUSDT,
       <<":">> \o sUSDT,
       <<"/">> \o sUSDT,
       sUSD,
       <<"-">> \o sUSDT,
       sUSDT,
       <<"-","S","W","A","P">>,
       <<"-">> \o sUSD,
       <<"/">> \o sUSD >>

\* the variations list of normalize_symbol
NormalizeVariations ==
    << <<"/">> \o sUSDT \o <<":">> \o sUSDT,
       <<":">> \o sUSDT,
       <<"/">> \o sUSDT,
       <<"-">> \o sUSDT,
       sUSDT,
       <<"-","S","W","A","P">>,
       <<"-">> \o sUSD,
       <<"/">> \o sUSD,
       sUSD >>

\* the variations list of extract_price_multiplier (it has no bare 'USD')
MultiplierVariations ==
    << <<"/">> \o sUSDT \o <<":">> \o sUSDT,
       <<":">> \o sUSDT,
       <<"/">> \o sUSDT,
       <<"-">> \o sUSDT,
       sUSDT,
       <<"-","S","W","A","P">>,
       <<"-">> \o sUSD,
       <<"/">> \o sUSD >>

\* cleaned, as normalize_symbol computes it
NormalizeCleaned(s) == StripAll(s, NormalizeVariations)

\* cleaned, as extract_price_multiplier computes it
MultiplierCleaned(s) == StripAll(s, MultiplierVariations)

\* the branches with '1000' tested ahead of '1000000'
NormalizeBranchShortPrefixFirst(c) ==
    IF StartsWith(c, s1000) THEN "prefix1000"
    ELSE IF StartsWith(c, s1000000) THEN "prefix1000000"
    ELSE IF StartsWith(c, s1M) THEN "prefix1M"
    ELSE IF StartsWith(c, sk) /\ Len(c) > 1 /\ IsUpper(c[2]) THEN "prefixk"
    ELSE IF EndsWith(c, s1000) THEN "suffix1000"
    ELSE IF EndsWith(c, s1M) THEN "suffix1M"
    ELSE IF EndsWith(c, s1000000) THEN "suffix1000000"
    ELSE IF Contains(c, sSOLAYER) THEN "renameSOLAYER"
    ELSE IF Contains(c, sTRUMPOFFICIAL) THEN "renameTRUMPOFFICIAL"
    ELSE "cleaned"

\* the branches without the len(cleaned) > 1 test: cleaned[1] of a
\* one-character string raises IndexError
NormalizeBranchUnguarded(c) ==
    IF StartsWith(c, s1000000) THEN "prefix1000000"
    ELSE IF StartsWith(c, s1M) THEN "prefix1M"
    ELSE IF StartsWith(c, s1000) THEN "prefix1000"
    ELSE IF StartsWith(c, sk) /\ Len(c) = 1 THEN "IndexError"
    ELSE IF StartsWith(c, sk) /\ IsUpper(c[2]) THEN "prefixk"
    ELSE IF EndsWith(c, s1000) THEN "suffix1000"
    ELSE IF EndsWith(c, s1M) THEN "suffix1M"
    ELSE IF EndsWith(c, s1000000) THEN "suffix1000000"
    ELSE IF Contains(c, sSOLAYER) THEN "renameSOLAYER"
    ELSE IF Contains(c, sTRUMPOFFICIAL) THEN "renameTRUMPOFFICIAL"
    ELSE "cleaned"

\* the branch of normalize_symbol that returns, for a cleaned string c
NormalizeBranch(c) ==
    IF StartsWith(c, s1000000) THEN "prefix1000000"
    ELSE IF StartsWith(c, s1M) THEN "prefix1M"
    ELSE IF StartsWith(c, s1000) THEN "prefix1000"
    ELSE IF StartsWith(c, sk) /\ Len(c) > 1 /\ IsUpper(c[2]) THEN "prefixk"
    ELSE IF EndsWith(c, s1000) THEN "suffix1000"
    ELSE IF EndsWith(c, s1M) THEN "suffix1M"
    ELSE IF EndsWith(c, s1000000) THEN "suffix1000000"
    ELSE IF Contains(c, sSOLAYER) THEN "renameSOLAYER"
    ELSE IF Contains(c, sTRUMPOFFICIAL) THEN "renameTRUMPOFFICIAL"
    ELSE "cleaned"

\* normalize_symbol with suffix_len 2 for both million suffixes
normalize_symbol_short_suffix(s) ==
    LET c == NormalizeCleaned(s)
        b == NormalizeBranch(c)
    IN  CASE b = "prefix1000000" -> DropFirst(c, 7)
          [] b = "prefix1M" -> DropFirst(c, 2)
          [] b = "prefix1000" -> DropFirst(c, 4)
          [] b = "prefixk" -> DropFirst(c, 1)
          [] b = "suffix1000" -> DropLast(c, 4)
          [] b = "suffix1M" -> DropLast(c, 2)
          [] b = "suffix1000000" -> DropLast(c, 2)
          [] b = "renameSOLAYER" -> sLAYER
          [] b = "renameTRUMPOFFICIAL" -> sTRUMP
          [] OTHER -> c

\* DataProcessor.normalize_symbol
normalize_symbol(s) ==
    LET c == NormalizeCleaned(s)
        b == NormalizeBranch(c)
    IN  CASE b = "prefix1000000" -> DropFirst(c, 7)
          [] b = "prefix1M" -> DropFirst(c, 2)
          [] b = "prefix1000" -> DropFirst(c, 4)
          [] b = "prefixk" -> DropFirst(c, 1)
          [] b = "suffix1000" -> DropLast(c, 4)
          [] b = "suffix1M" -> DropLast(c, 2)
          [] b = "suffix1000000" -> DropLast(c, 7)
          [] b = "renameSOLAYER" -> sLAYER
          [] b = "renameTRUMPOFFICIAL" -> sTRUMP
          [] OTHER -> c

\* DataProcessor.extract_price_multiplier
extract_price_multiplier(s) ==
    LET c == MultiplierCleaned(s)
    IN  IF StartsWith(c, s1000000) THEN 1000000
        ELSE IF StartsWith(c, s1000) THEN 1000
        ELSE IF StartsWith(c, s1M) THEN 1000000
        ELSE IF StartsWith(c, sk) /\ Len(c) > 1 /\ IsUpper(c[2]) THEN 1000
        ELSE IF EndsWith(c, s1000) THEN 1000
        ELSE IF EndsWith(c, s1M) THEN 1000000
        ELSE IF EndsWith(c, s1000000) THEN 1000000
        ELSE 1

\* ------------------------------------------------------ float arithmetic
Abs(x) == IF x < 0 THEN -x ELSE x

RECURSIVE Gcd(_, _)
Gcd(a, b) == IF b = 0 THEN a ELSE Gcd(b, a % b)

\* the number n/d (d # 0), in lowest terms with a positive denominator
Rat(n, d) ==
    LET g == Gcd(Abs(n), Abs(d))
        sgn == IF d < 0 THEN -1 ELSE 1
    IN  <<(sgn * n) \div g, (sgn * d) \div g>>

FromInt(n) == <<n, 1>>
Zero == <<0, 1>>
RatAdd(a, b) == Rat(a[1] * b[2] + b[1] * a[2], a[2] * b[2])
RatMul(a, b) == Rat(a[1] * b[1], a[2] * b[2])
\* a / b   (b # 0)
RatDiv(a, b) == Rat(a[1] * b[2], a[2] * b[1])

RECURSIVE SumSeq(_)
SumSeq(q) == IF q = <<>> THEN 0 ELSE Head(q) + SumSeq(Tail(q))

Range(q) == {q[i] : i \in DOMAIN q}

\* ------------------------------------------------------------ exchanges
Exchanges == {"binance", "bybit", "okx", "hyperliquid", "rabbitx"}

\* str.lower() on the strings the code lowers: the multiselect's exchange
\* names and the exchanges' side indicators
Lower(x) ==
    CASE x = "Binance" -> "binance"
      [] x = "Bybit" -> "bybit"
      [] x = "OKX" -> "okx"
      [] x = "Hyperliquid" -> "hyperliquid"
      [] x = "RabbitX" -> "rabbitx"
      [] x = "Buy" -> "buy"
      [] x = "Sell" -> "sell"
      [] OTHER -> x

\* raw_symbol.split(':')[0]
RECURSIVE BeforeColon(_)
BeforeColon(s) ==
    IF s = <<>> \/ Head(s) = ":" THEN <<>>
    ELSE <<Head(s)>> \o BeforeColon(Tail(s))

\* contract_multipliers.get(raw_symbol, 1.0): the default
OkxContractMultiplier == 1

\* Hyperliquid reports positionValue = |szi| * mark price
HyperliquidPositionValue(r) == Abs(r.amount) * r.mark

\* the filter with >= 0 in place of > 0 on Bybit and RabbitX
KeepsPositionNonNegative(exchange, r) ==
    CASE exchange = "hyperliquid" -> r.amount # 0
      [] exchange = "okx" -> r.amount # 0
      [] exchange = "bybit" -> r.amount >= 0
      [] exchange = "binance" -> r.amount # 0
      [] exchange = "rabbitx" -> r.amount >= 0

\* the filter of each exchange branch of get_positions
KeepsPosition(exchange, r) ==
    CASE exchange = "hyperliquid" -> r.amount # 0
      [] exchange = "okx" -> r.amount # 0
      [] exchange = "bybit" -> r.amount > 0
      [] exchange = "binance" -> r.amount # 0
      [] exchange = "rabbitx" -> r.amount > 0

\* the position dict each exchange branch of get_positions appends.  rates
\* is not a key of the dict: it is the funding history the exchange holds
\* for the position's symbol, kept with the position so that
\* get_funding_rate_history can return it
EmitPosition(exchange, r) ==
    CASE exchange = "hyperliquid" ->
            [exchange |-> "hyperliquid",
             symbol |-> r.symbol,
             raw_symbol |-> r.symbol,
             size |-> r.amount,
             side |-> IF r.amount > 0 THEN "long" ELSE "short",
             current_price |-> Abs(HyperliquidPositionValue(r) \div r.amount),
             pnl |-> r.upnl,
             rates |-> r.rates]
      [] exchange = "okx" ->
            [exchange |-> exchange,
             symbol |-> normalize_symbol(BeforeColon(r.symbol)),
             raw_symbol |-> r.symbol,
             size |-> r.amount * OkxContractMultiplier,
             side |-> IF Lower(r.side) = "long" THEN "long" ELSE "short",
             current_price |-> r.mark,
             pnl |-> r.upnl,
             rates |-> r.rates]
      [] exchange = "bybit" ->
            [exchange |-> exchange,
             symbol |-> normalize_symbol(r.symbol),
             raw_symbol |-> r.symbol,
             size |-> r.amount,
             side |-> IF Lower(r.side) = "buy" THEN "long" ELSE "short",
             current_price |-> r.mark,
             pnl |-> r.upnl,
             rates |-> r.rates]
      [] exchange = "binance" ->
            [exchange |-> "binance",
             symbol |-> normalize_symbol(r.symbol),
             raw_symbol |-> r.symbol,
             size |-> Abs(r.amount),
             side |-> IF r.amount < 0 THEN "short" ELSE "long",
             current_price |-> r.mark,
             pnl |-> r.upnl,
             rates |-> r.rates]
      [] exchange = "rabbitx" ->
            [exchange |-> "rabbitx",
             symbol |-> normalize_symbol(r.symbol),
             raw_symbol |-> r.symbol,
             size |-> r.amount,
             side |-> IF Lower(r.side) = "buy" THEN "long" ELSE "short",
             current_price |-> r.mark,
             pnl |-> r.upnl,
             rates |-> r.rates]

\* ExchangeClient.get_positions: the positions built from an exchange's
\* raw response
RECURSIVE get_positions(_, _)
get_positions(exchange, raw) ==
    IF raw = <<>> THEN <<>>
    ELSE (IF KeepsPosition(exchange, Head(raw))
          THEN <<EmitPosition(exchange, Head(raw))>> ELSE <<>>)
         \o get_positions(exchange, Tail(raw))

\* ExchangeClient.get_funding_rate_history: the fundingRate column.  There
\* is no rabbitx branch: the frame is empty for it
get_funding_rate_history(exchange, pos) ==
    IF exchange \in {"hyperliquid", "okx", "bybit", "binance"}
    THEN pos.rates ELSE <<>>

\* ------------------------------------------------ update_dashboard_data
\* funding_intervals.get(exchange, 8)
funding_intervals(exchange) ==
    CASE exchange = "hyperliquid" -> 1
      [] exchange = "bybit" -> 8
      [] exchange = "binance" -> 8
      [] exchange = "okx" -> 8
      [] exchange = "rabbitx" -> 1
      [] OTHER -> 8

\* position_value = abs(pos['size'] * pos['current_price'])
position_value(pos) == Abs(pos.size * pos.current_price)

\* position_delta = size * current_price * (1 if side == 'long' else -1)
position_delta(pos) ==
    pos.size * pos.current_price * (IF Lower(pos.side) = "long" THEN 1 ELSE -1)

\* the value stored in pos['funding_pnl'] when the funding history is empty
EmptyHistoryFundingPnl == Zero

\* funding_pnl with the rates summed instead of averaged
funding_pnl_summing_rates(exchange, pos, d) ==
    LET funding_history == get_funding_rate_history(exchange, pos)
    IN  IF funding_history # <<>>
        THEN RatMul(RatMul(FromInt(position_value(pos) * SumSeq(funding_history)),
                           Rat(d * 24, funding_intervals(exchange))),
                    FromInt(IF Lower(pos.side) = "long" THEN 1 ELSE -1))
        ELSE EmptyHistoryFundingPnl

\* pos['funding_pnl'] as the first loop computes it
funding_pnl(exchange, pos, d) ==
    LET funding_history == get_funding_rate_history(exchange, pos)
    IN  IF funding_history # <<>>
        THEN LET interval_hours == funding_intervals(exchange)
                 periods_in_timeframe == Rat(d * 24, interval_hours)
                 avg_funding_rate == Rat(SumSeq(funding_history), Len(funding_history))
                 position_multiplier == IF Lower(pos.side) = "long" THEN 1 ELSE -1
             IN  RatMul(RatMul(RatMul(FromInt(position_value(pos)), avg_funding_rate),
                               periods_in_timeframe),
                        FromInt(position_multiplier))
        ELSE EmptyHistoryFundingPnl

\* the locals at the start of update_dashboard_data
FreshLocals ==
    [all_positions |-> <<>>,
     delta_exposure |-> <<>>,
     total_funding_pnl |-> Zero,
     total_position_value |-> 0,
     total_pnl |-> 0,
     total_delta |-> 0]

\* the totals after the first loop has fully processed positions[1..n]
RECURSIVE LoopTotals(_, _, _, _, _)
LoopTotals(L, exchange, positions, n, d) ==
    IF n = 0 THEN L
    ELSE LET P == LoopTotals(L, exchange, positions, n - 1, d)
             pos == positions[n]
         IN  [P EXCEPT
                !.total_position_value = @ + position_value(pos),
                !.total_delta = @ + position_delta(pos),
                !.total_funding_pnl = RatAdd(@, funding_pnl(exchange, pos, d)),
                !.total_pnl = @ + pos.pnl]

\* the position dicts after the first loop: exchange and funding_pnl set;
\* funding_history records what get_funding_rate_history returned
AnnotatePositions(exchange, positions, d) ==
    [i \in 1..Len(positions) |->
        [exchange |-> exchange,
         symbol |-> positions[i].symbol,
         raw_symbol |-> positions[i].raw_symbol,
         size |-> positions[i].size,
         side |-> positions[i].side,
         current_price |-> positions[i].current_price,
         pnl |-> positions[i].pnl,
         funding_pnl |-> funding_pnl(exchange, positions[i], d),
         funding_history |-> get_funding_rate_history(exchange, positions[i])]]

\* the entry one position adds to, or updates in, delta_exposure
DeltaEntry(old, exchange, pos) ==
    [total_delta |-> old.total_delta + position_delta(pos),
     exchanges |-> [old.exchanges EXCEPT ![exchange] = position_delta(pos)],
     funding_pnl |-> RatAdd(old.funding_pnl, pos.funding_pnl)]

\* delta_exposure after the second loop has processed positions[1..n]
RECURSIVE DeltaLoop(_, _, _, _, _)
DeltaLoop(dx, exchange, positions, n, selected) ==
    IF n = 0 THEN dx
    ELSE LET D == DeltaLoop(dx, exchange, positions, n - 1, selected)
             pos == positions[n]
             symbol == pos.symbol
             fresh == [total_delta |-> 0,
                       exchanges |-> [ex \in {Lower(x) : x \in Range(selected)} |-> 0],
                       funding_pnl |-> Zero]
             old == IF symbol \in DOMAIN D THEN D[symbol] ELSE fresh
         IN  [k \in DOMAIN D \cup {symbol} |->
                IF k = symbol THEN DeltaEntry(old, exchange, pos) ELSE D[k]]

\* one iteration of the exchange loop that runs to its end
IterationCompletes(L, exchange, positions, selected, d) ==
    IF positions = <<>> THEN L
    ELSE LET T == LoopTotals(L, exchange, positions, Len(positions), d)
             done == AnnotatePositions(exchange, positions, d)
         IN  [T EXCEPT
                !.all_positions = @ \o done,
                !.delta_exposure = DeltaLoop(@, exchange, done, Len(done), selected)]

\* IterationRaises with all_positions extended inside the first loop
IterationRaisesAfterExtending(L, exchange, positions, k, d) ==
    LET T == LoopTotals(L, exchange, positions, k - 1, d)
    IN  [T EXCEPT
           !.total_position_value = @ + position_value(positions[k]),
           !.total_delta = @ + position_delta(positions[k]),
           !.all_positions =
               @ \o AnnotatePositions(exchange, SubSeq(positions, 1, k - 1), d)]

\* one iteration that raises in the funding step of positions[k]: the
\* first loop has processed positions[1..k-1] and has added the value and
\* the delta of positions[k]; the except clause then ends the iteration
IterationRaises(L, exchange, positions, k, d) ==
    LET T == LoopTotals(L, exchange, positions, k - 1, d)
    IN  [T EXCEPT
           !.total_position_value = @ + position_value(positions[k]),
           !.total_delta = @ + position_delta(positions[k])]

\* ------------------------------------------------- the exchanges' data
sBTC == <<"B","T","C">>
sPEPE == <<"P","E","P","E">>
sCcxtQuote == <<"/">> \o sUSDT \o <<":">> \o sUSDT

\* tickers as each exchange names them
RawSymbols(exchange) ==
    CASE exchange = "hyperliquid" -> {sBTC, sk \o sPEPE}
      [] exchange = "binance" -> {sBTC \o sCcxtQuote, s1000 \o sPEPE \o sCcxtQuote}
      [] exchange = "okx" -> {sBTC \o sCcxtQuote, sPEPE \o sCcxtQuote}
      [] exchange = "bybit" -> {sBTC \o sUSDT, s1000 \o sPEPE \o sUSDT}
      [] exchange = "rabbitx" -> {sBTC \o <<"-">> \o sUSD, sPEPE \o s1000 \o <<"-">> \o sUSD}

\* szi / positionAmt are signed; contracts / size come with a side flag
Amounts(exchange) ==
    IF exchange \in {"hyperliquid", "binance"} THEN {-1, 0, 2} ELSE {0, 2}

Sides(exchange) ==
    CASE exchange \in {"hyperliquid", "binance"} -> {"net"}
      [] exchange = "okx" -> {"long", "short"}
      [] exchange = "bybit" -> {"Buy", "Sell"}
      [] exchange = "rabbitx" -> {"buy", "sell"}

\* the mark prices an exchange may quote for a ticker in one refresh
MarkPrices(exchange, symbol) ==
    IF Contains(symbol, sBTC)
    THEN (IF exchange \in {"okx", "rabbitx"} THEN {4} ELSE {3})
    ELSE (IF exchange \in {"okx", "rabbitx"} THEN {1}
          ELSE IF exchange = "binance" THEN {0, 2} ELSE {2})

PnLs == {5}
\* fundingRate columns, in units of 1e-4
RateHistories == {<<>>, <<2, -5, 1>>}

RawPositions(exchange) ==
    {r \in [symbol : RawSymbols(exchange), amount : Amounts(exchange),
            side : Sides(exchange), mark : 0..4, upnl : PnLs,
            rates : RateHistories] :
        r.mark \in MarkPrices(exchange, r.symbol)}

\* the raw responses of at most n records
RawResponses(exchange, n) ==
    UNION {[1..m -> RawPositions(exchange)] : m \in 0..n}

\* what the user may have selected in the sidebar
Selections ==
    { <<"Binance", "Bybit", "OKX", "Hyperliquid", "RabbitX">>,
      <<"Hyperliquid", "Binance">>,
      <<"RabbitX", "OKX", "Bybit">> }

\* options of the time period selector (it also offers 14 and 30)
DaysOptions == {1, 7}

\* ------------------------- display_funding_rates (funding_rates_updated)
\* float('nan'): the quotient 0/0, which no number of lowest terms equals
NaN == <<0, 0>>

\* a + b and a / b on floats that may be NaN
FloatAdd(a, b) == IF a = NaN \/ b = NaN THEN NaN ELSE RatAdd(a, b)
FloatMul(a, b) == IF a = NaN \/ b = NaN THEN NaN ELSE RatMul(a, b)
FloatDiv(a, b) == IF a = NaN \/ b = NaN THEN NaN ELSE RatDiv(a, b)

\* the exchanges of the first loop, in its order
FundingExchanges == <<"bybit", "binance", "okx", "hyperliquid", "rabbitx">>

chunk_size == 50

sUsdtSwap == <<"-">> \o sUSDT \o <<"-","S","W","A","P">>

\* the key calculate_funding_payments stores a position's payment under
PaymentKey(exchange, pos) ==
    IF exchange = "okx" /\ ~EndsWith(pos.raw_symbol, sUsdtSwap)
    THEN pos.raw_symbol \o sUsdtSwap
    ELSE pos.raw_symbol

\* the sum of size * current_price * funding_rate * (-1 if short else 1)
\* over the rows of the funding history
RECURSIVE PaymentSum(_, _)
PaymentSum(pos, rates) ==
    IF rates = <<>> THEN 0
    ELSE pos.size * pos.current_price * Head(rates)
            * (IF pos.side = "short" THEN -1 ELSE 1)
         + PaymentSum(pos, Tail(rates))

\* funding_payments[symbol] of one position
PositionPayment(exchange, pos) ==
    LET funding_rates_df == get_funding_rate_history(exchange, pos)
    IN  IF funding_rates_df = <<>> THEN NaN
        ELSE FromInt(PaymentSum(pos, funding_rates_df))

\* ExchangeClient.calculate_funding_payments: the dict after positions[1..n];
\* a later position with the same key overwrites the entry of an earlier one
calculate_funding_payments(exchange, positions, n) ==
    LET key(i) == PaymentKey(exchange, positions[i])
        last(k) == CHOOSE i \in 1..n :
                      /\ key(i) = k
                      /\ \A j \in (i + 1)..n : key(j) # k
    IN  [k \in {key(i) : i \in 1..n} |->
            PositionPayment(exchange, positions[last(k)])]

\* sum(funding_payments.values())
RECURSIVE SumValues(_, _)
SumValues(f, S) ==
    IF S = {} THEN Zero
    ELSE LET x == CHOOSE y \in S : TRUE
         IN  FloatAdd(f[x], SumValues(f, S \ {x}))

\* dict.update
DictUpdate(old, new) ==
    [k \in DOMAIN old \cup DOMAIN new |-> IF k \in DOMAIN new THEN new[k] ELSE old[k]]

\* range(0, len(positions), chunk_size): the number of chunks
NumChunks(n) == (n + chunk_size - 1) \div chunk_size

\* sum(abs(pos['size'] * pos['current_price']) for pos in positions)
RECURSIVE ExposureSum(_)
ExposureSum(positions) ==
    IF positions = <<>> THEN 0
    ELSE Abs(Head(positions).size * Head(positions).current_price)
         + ExposureSum(Tail(positions))

\* funding_intervals.get(exchange, 8) in the metrics loop
IntervalOf(intervals, exchange) ==
    IF exchange \in DOMAIN intervals THEN intervals[exchange] ELSE 8

\* normalized_funding_pnl without the division by the normalization factor
normalized_funding_pnl_unscaled(raw_funding_pnl, funding_interval) ==
    raw_funding_pnl

\* normalized_funding_pnl, from raw_funding_pnl and the funding interval
normalized_funding_pnl(raw_funding_pnl, funding_interval) ==
    IF funding_interval # 8
    THEN LET normalization_factor == Rat(8, funding_interval)
         IN  FloatDiv(raw_funding_pnl, normalization_factor)
    ELSE raw_funding_pnl

\* funding_apy, from the normalized funding PnL
funding_apy(normalized, notional_size, d) ==
    IF normalized # Zero /\ notional_size # 0
    THEN LET periods_per_year == Rat(365 * 24, 8)
             periods == RatDiv(periods_per_year, RatDiv(FromInt(d * 24), FromInt(8)))
         IN  FloatMul(FloatMul(FloatDiv(normalized, FromInt(notional_size)), periods),
                      FromInt(100))
    ELSE Zero

\* the token_metrics row of one position of all_positions
TokenMetric(pos, payments, intervals, d) ==
    LET symbol == pos.symbol
        exchange == Lower(pos.exchange)
        notional_size == Abs(pos.size * pos.current_price)
        raw_funding_pnl == IF symbol \in DOMAIN payments THEN payments[symbol] ELSE Zero
        funding_interval == IntervalOf(intervals, exchange)
        normalized == normalized_funding_pnl(raw_funding_pnl, funding_interval)
    IN  [symbol |-> normalize_symbol(symbol),
         exchange |-> exchange,
         notional_size |-> notional_size,
         raw_funding_pnl |-> raw_funding_pnl,
         normalized_funding_pnl |-> normalized,
         funding_interval |-> funding_interval,
         funding_apy |-> funding_apy(normalized, notional_size, d),
         side |-> IF pos.side = "long" THEN "LONG" ELSE "SHORT",
         status |-> "ACTIVE"]

FundingIdle ==
    /\ fr_days = 7
    /\ fr_all_positions = <<>>
    /\ total_exposure = 0
    /\ total_funding = Zero
    /\ historical_funding_payments = <<>>
    /\ fr_funding_intervals = <<>>
    /\ token_metrics = <<>>
    /\ fr_index = 0
    /\ fr_pc = "shown"
    /\ fr_fetched = 0

\* ----------------------------------------------------- main (app.py)
\* str.capitalize() of an exchange name
Capitalize(x) ==
    CASE x = "binance" -> "Binance"
      [] x = "bybit" -> "Bybit"
      [] x = "okx" -> "Okx"
      [] x = "hyperliquid" -> "Hyperliquid"
      [] x = "rabbitx" -> "Rabbitx"
      [] OTHER -> x

\* the number a format spec with k decimals prints for x, in units of
\* 1/scale (scale = 10^k): x rounded to the nearest unit, ties to even
RoundTo(x, scale) ==
    LET n == Abs(x[1]) * scale
        q == n \div x[2]
        rem == n - q * x[2]
        up == (2 * rem > x[2]) \/ (2 * rem = x[2] /\ q % 2 = 1)
        magnitude == IF up THEN q + 1 ELSE q
    IN  IF x[1] < 0 THEN -magnitude ELSE magnitude

\* the keys of delta_exposure in insertion order: the symbols of
\* all_positions in order of first appearance
RECURSIVE TokenOrder(_)
TokenOrder(positions) ==
    IF positions = <<>> THEN <<>>
    ELSE LET before == TokenOrder(SubSeq(positions, 1, Len(positions) - 1))
             symbol == positions[Len(positions)].symbol
         IN  IF symbol \in Range(before) THEN before ELSE Append(before, symbol)

\* exchange_deltas[exchange] of one token
ExchangeDelta(positions, symbol, data, exchange, dollar) ==
    IF dollar THEN FromInt(data.exchanges[exchange])
    ELSE LET exchange_positions ==
                 SelectSeq(positions,
                           LAMBDA p : p.exchange = exchange /\ p.symbol = symbol)
         IN  IF exchange_positions # <<>>
             THEN LET current_price == exchange_positions[1].current_price
                  IN  IF current_price # 0
                      THEN Rat(data.exchanges[exchange], current_price)
                      ELSE Zero
             ELSE Zero

\* sum(exchange_deltas.values())
RECURSIVE SumOver(_, _)
SumOver(f, S) ==
    IF S = {} THEN Zero
    ELSE LET x == CHOOSE y \in S : TRUE
         IN  RatAdd(f[x], SumOver(f, S \ {x}))

\* one row of the delta table.  'Total Delta' holds the number its text
\* shows, in units of 1/scale: cents of dollars with the toggle on
\* ("$x,xxx.xx"), 1e-4 tokens with the toggle off ("x.xxxx SYMBOL")
DeltaRow(positions, symbol, data, selected, dollar) ==
    LET exchanges == {Lower(e) : e \in Range(selected)}
        exchange_deltas ==
            [e \in exchanges |-> ExchangeDelta(positions, symbol, data, e, dollar)]
        scale == IF dollar THEN 100 ELSE 10000
    IN  [Token |-> symbol,
         TotalDelta |-> IF dollar THEN RoundTo(FromInt(data.total_delta), 100)
                        ELSE RoundTo(SumOver(exchange_deltas, exchanges), 10000),
         scale |-> scale,
         FundingPnL |-> RoundTo(RatDiv(data.funding_pnl, FromInt(10000)), 100),
         ExchangeDeltas |-> [e \in exchanges |-> RoundTo(exchange_deltas[e], scale)]]

\* the sort key: abs(float(...)) of the text of 'Total Delta'
SortKey(row) == Abs(row.TotalDelta)

\* list.sort(key=..., reverse=True): descending and stable
RECURSIVE SortRows(_)
SortRows(rows) ==
    IF rows = <<>> THEN <<>>
    ELSE LET sorted == SortRows(SubSeq(rows, 1, Len(rows) - 1))
             row == rows[Len(rows)]
             ahead == SelectSeq(sorted, LAMBDA r : SortKey(r) >= SortKey(row))
             behind == SelectSeq(sorted, LAMBDA r : SortKey(r) < SortKey(row))
         IN  ahead \o <<row>> \o behind

\* delta_data after the rows are built and sorted
DeltaTable(positions, dx, selected, dollar) ==
    LET order == TokenOrder(positions)
    IN  SortRows([i \in 1..Len(order) |->
                    DeltaRow(positions, order[i], dx[order[i]], selected, dollar)])

\* positions_by_token after the positions[1..n] are entered: per token, in
\* insertion order, the exchanges holding it, in insertion order, each with
\* the data of its last position
RECURSIVE GroupByToken(_, _)
GroupByToken(positions, n) ==
    IF n = 0 THEN <<>>
    ELSE LET G == GroupByToken(positions, n - 1)
             pos == positions[n]
             entry == [exchange |-> pos.exchange, size |-> pos.size,
                       current_price |-> pos.current_price, side |-> pos.side]
             Put(exchange_data) ==
                 IF \E k \in DOMAIN exchange_data :
                        exchange_data[k].exchange = pos.exchange
                 THEN [k \in DOMAIN exchange_data |->
                         IF exchange_data[k].exchange = pos.exchange
                         THEN entry ELSE exchange_data[k]]
                 ELSE Append(exchange_data, entry)
         IN  IF \E t \in DOMAIN G : G[t].token = pos.symbol
             THEN [t \in DOMAIN G |->
                     IF G[t].token = pos.symbol
                     THEN [token |-> pos.symbol,
                           exchange_data |-> Put(G[t].exchange_data)]
                     ELSE G[t]]
             ELSE Append(G, [token |-> pos.symbol, exchange_data |-> <<entry>>])

\* the (i, j) of the nested loops over range(n) and range(i + 1, n)
RECURSIVE IndexPairsFrom(_, _, _)
IndexPairsFrom(i, j, n) ==
    IF i > n THEN <<>>
    ELSE IF j > n THEN IndexPairsFrom(i + 1, i + 2, n)
    ELSE <<<<i, j>>>> \o IndexPairsFrom(i, j + 1, n)

\* the nested loops with j starting at i instead of i + 1
IndexPairsWithSelf(n) ==
    IF n = 0 THEN <<>>
    ELSE IndexPairsFrom(1, 2, n) \o <<<<n, n>>>>

IndexPairs(n) == IndexPairsFrom(1, 2, n)

\* the pairs the loops visit for one token
PairsOfToken(group) ==
    IF Len(group.exchange_data) > 1
    THEN LET ip == IndexPairs(Len(group.exchange_data))
         IN  [k \in 1..Len(ip) |->
                [token |-> group.token,
                 exchange1 |-> group.exchange_data[ip[k][1]].exchange,
                 exchange2 |-> group.exchange_data[ip[k][2]].exchange,
                 price1 |-> group.exchange_data[ip[k][1]].current_price,
                 price2 |-> group.exchange_data[ip[k][2]].current_price]]
    ELSE <<>>

\* the pairs the loops visit, in the order they visit them
RECURSIVE PairsToVisit(_)
PairsToVisit(groups) ==
    IF groups = <<>> THEN <<>>
    ELSE PairsOfToken(Head(groups)) \o PairsToVisit(Tail(groups))

\* min(price1, price2)
Min(a, b) == IF a <= b THEN a ELSE b

\* price_spread_bps with max in place of min
price_spread_bps_over_max(price1, price2) ==
    RatMul(Rat(Abs(price1 - price2), IF price1 >= price2 THEN price1 ELSE price2),
           FromInt(10000))

\* price_spread_bps; the caller has found min(price1, price2) # 0
price_spread_bps(price1, price2) ==
    LET price_spread == Abs(price1 - price2)
    IN  RatMul(Rat(price_spread, Min(price1, price2)), FromInt(10000))

\* what get_funding_rate_history(exchange, token, days=1) may do: return a
\* frame (rates in units of 1e-4) or raise
FundingFetches ==
    {[raised |-> TRUE, frame |-> <<>>]} \cup
    {[raised |-> FALSE, frame |-> f] : f \in {<<>>, <<2, -5>>, <<3>>}}

\* funding_rate1 / funding_rate2: 0 unless the fetch returned rows, then
\* the fundingRate of the last row
funding_rate(fetch) ==
    IF ~fetch.raised /\ fetch.frame # <<>> THEN fetch.frame[Len(fetch.frame)] ELSE 0

\* funding_spread_bps = abs(funding_rate1 - funding_rate2) * 10000
funding_spread_bps(fetch1, fetch2) == Abs(funding_rate(fetch1) - funding_rate(fetch2))

\* the dict appended to arb_opportunities.  'Price Spread' and 'Funding
\* Rate Spread' hold the number their text shows, in tenths of a bps; the
\* fetches are recorded next to them
ArbEntry(pair, fetch1, fetch2) ==
    [Token |-> pair.token,
     ExchangePair |-> <<Capitalize(pair.exchange1), Capitalize(pair.exchange2)>>,
     PriceSpread |-> RoundTo(price_spread_bps(pair.price1, pair.price2), 10),
     FundingRateSpread |-> RoundTo(FromInt(funding_spread_bps(fetch1, fetch2)), 10),
     price1 |-> pair.price1,
     price2 |-> pair.price2,
     fetch1 |-> fetch1,
     fetch2 |-> fetch2]

MainIdle ==
    /\ show_dollar_value = TRUE
    /\ delta_data = <<>>
    /\ positions_by_token = <<>>
    /\ arb_pending = <<>>
    /\ arb_opportunities = <<>>
    /\ main_pc = "idle"

\* a rerun of the script: the locals of main are created anew
MainRestarts ==
    /\ show_dollar_value' = TRUE
    /\ delta_data' = <<>>
    /\ positions_by_token' = <<>>
    /\ arb_pending' = <<>>
    /\ arb_opportunities' = <<>>
    /\ main_pc' = "idle"

\* ---------------------------- display_funding_rates (funding_rates.py)
sPERP == <<"P","E","R","P">>

\* the selector's options
LegacyExchanges == {"bybit", "binance"}

\* records an exchange may report to this page: those of the dashboard and
\* a ticker that normalize_symbol leaves as it is, quoted at 0 or at 3
LegacyRawPositions(exchange) ==
    RawPositions(exchange) \cup
    [symbol : {sBTC \o sPERP}, amount : Amounts(exchange),
     side : Sides(exchange), mark : {0, 3}, upnl : PnLs, rates : RateHistories]

LegacyRawResponses(exchange, n) ==
    UNION {[1..m -> LegacyRawPositions(exchange)] : m \in 0..n}

\* delta_exposure after the loop over one exchange's positions[1..n]
RECURSIVE LegacyDeltaLoop(_, _, _, _)
LegacyDeltaLoop(dx, exchange, positions, n) ==
    IF n = 0 THEN dx
    ELSE LET D == LegacyDeltaLoop(dx, exchange, positions, n - 1)
             pos == positions[n]
             normalized_symbol == normalize_symbol(pos.symbol)
             delta == pos.size * pos.current_price
                        * (IF Lower(pos.side) = "long" THEN 1 ELSE -1)
             fresh == [total_delta |-> 0, exchanges |-> [bybit |-> 0, binance |-> 0]]
             old == IF normalized_symbol \in DOMAIN D THEN D[normalized_symbol] ELSE fresh
         IN  [k \in DOMAIN D \cup {normalized_symbol} |->
                IF k = normalized_symbol
                THEN [total_delta |-> old.total_delta + delta,
                      exchanges |-> [old.exchanges EXCEPT ![exchange] = delta]]
                ELSE D[k]]

\* delta_exposure: Bybit's positions first, then Binance's
LegacyDeltaExposure(cached) ==
    LegacyDeltaLoop(
        LegacyDeltaLoop(<<>>, "bybit", cached["bybit"], Len(cached["bybit"])),
        "binance", cached["binance"], Len(cached["binance"]))

\* delta_data: one row per token, amounts in cents, sorted
LegacyDeltaTable(cached, dx) ==
    LET both == cached["bybit"] \o cached["binance"]
        order == TokenOrder([i \in 1..Len(both) |->
                                [symbol |-> normalize_symbol(both[i].symbol)]])
    IN  SortRows([i \in 1..Len(order) |->
                    [Token |-> order[i],
                     TotalDelta |-> RoundTo(FromInt(dx[order[i]].total_delta), 100),
                     BybitDelta |-> RoundTo(FromInt(dx[order[i]].exchanges["bybit"]), 100),
                     BinanceDelta |-> RoundTo(FromInt(dx[order[i]].exchanges["binance"]), 100)]])

\* funding_pnl = funding_payments.get(pos['symbol'], 0)
LegacyFundingPnl(pos, payments) ==
    IF pos.symbol \in DOMAIN payments THEN payments[pos.symbol] ELSE Zero

\* the division of the APY is reached and its divisor is 0
LegacyApyDividesByZero(pos, payments) ==
    /\ LegacyFundingPnl(pos, payments) # Zero
    /\ Abs(pos.size * pos.current_price) = 0

\* the dict appended to token_metrics
LegacyTokenMetric(pos, payments, d) ==
    LET normalized_symbol == normalize_symbol(pos.symbol)
        notional_size == Abs(pos.size * pos.current_price)
        pnl == LegacyFundingPnl(pos, payments)
        apy == IF pnl # Zero
               THEN FloatMul(FloatMul(FloatDiv(pnl, FromInt(notional_size)),
                                      Rat(365, d)),
                             FromInt(100))
               ELSE Zero
    IN  [symbol |-> normalized_symbol,
         original_symbol |-> pos.symbol,
         notional_size |-> notional_size,
         funding_pnl |-> pnl,
         funding_apy |-> apy,
         side |-> IF pos.side = "long" THEN "LONG" ELSE "SHORT"]

LegacyIdle ==
    /\ lg_selected_exchange = "bybit"
    /\ lg_days = 7
    /\ lg_cached = [e \in LegacyExchanges |-> <<>>]
    /\ lg_funding_payments = <<>>
    /\ lg_total_exposure = 0
    /\ lg_total_funding = Zero
    /\ lg_daily_funding = Zero
    /\ lg_delta_exposure = <<>>
    /\ lg_delta_data = <<>>
    /\ lg_token_metrics = <<>>
    /\ lg_pc = "idle"

\* ------------------------------------------- update_dashboard_data run
Locals ==
    [all_positions |-> all_positions,
     delta_exposure |-> delta_exposure,
     total_funding_pnl |-> total_funding_pnl,
     total_position_value |-> total_position_value,
     total_pnl |-> total_pnl,
     total_delta |-> total_delta]

SetLocals(L) ==
    /\ all_positions' = L.all_positions
    /\ delta_exposure' = L.delta_exposure
    /\ total_funding_pnl' = L.total_funding_pnl
    /\ total_position_value' = L.total_position_value
    /\ total_pnl' = L.total_pnl
    /\ total_delta' = L.total_delta

\* the exchange of the current loop iteration
CurrentExchange == Lower(selected_exchanges[exchange_index + 1])

\* log with the entry of an exchange that delivered positions
Logged(lg, entry) == IF entry.positions = <<>> THEN lg ELSE Append(lg, entry)

InLoop == pc = "loop" /\ exchange_index < Len(selected_exchanges)

LocalsAre(L) ==
    /\ all_positions = L.all_positions
    /\ delta_exposure = L.delta_exposure
    /\ total_funding_pnl = L.total_funding_pnl
    /\ total_position_value = L.total_position_value
    /\ total_pnl = L.total_pnl
    /\ total_delta = L.total_delta

NormIdle ==
    /\ sym = <<>>
    /\ ntok = 0
    /\ norm = [called |-> FALSE]

DashIdle ==
    /\ selected_exchanges = <<>>
    /\ days = 7
    /\ LocalsAre(FreshLocals)
    /\ exchange_index = 0
    /\ pc = "returned"
    /\ log = <<>>
    /\ fetched = 0
    /\ earlier_held = FALSE

\* the script has loaded; update_dashboard_data has not run yet
Init ==
    /\ selected_exchanges \in Selections
    /\ days \in DaysOptions
    /\ LocalsAre(FreshLocals)
    /\ exchange_index = 0
    /\ pc = "returned"
    /\ log = <<>>
    /\ fetched = 0
    /\ earlier_held = FALSE
    /\ NormIdle
    /\ FundingIdle
    /\ MainIdle
    /\ LegacyIdle

\* StartRefresh with all_positions and delta_exposure kept across calls
StartRefreshKeepingExposure ==
    /\ pc = "returned"
    /\ selected_exchanges' \in Selections
    /\ days' \in DaysOptions
    /\ total_funding_pnl' = Zero
    /\ total_position_value' = 0
    /\ total_pnl' = 0
    /\ total_delta' = 0
    /\ exchange_index' = 0
    /\ pc' = "loop"
    /\ log' = <<>>
    /\ fetched' = 0
    /\ earlier_held' = (earlier_held \/ all_positions # <<>>)
    /\ MainRestarts
    /\ UNCHANGED <<all_positions, delta_exposure, normVars, fundingVars, legacyVars>>

\* a rerun of the script calls update_dashboard_data: the locals are
\* created anew
StartRefresh ==
    /\ pc = "returned"
    /\ selected_exchanges' \in Selections
    /\ days' \in DaysOptions
    /\ SetLocals(FreshLocals)
    /\ exchange_index' = 0
    /\ pc' = "loop"
    /\ log' = <<>>
    /\ fetched' = 0
    /\ earlier_held' = (earlier_held \/ all_positions # <<>>)
    /\ MainRestarts
    /\ UNCHANGED <<normVars, fundingVars, legacyVars>>

\* client.get_positions(exchange) raises: the except clause reports it
GetPositionsRaises ==
    /\ InLoop
    /\ exchange_index' = exchange_index + 1
    /\ UNCHANGED <<selected_exchanges, days, localVars, pc, log, fetched,
                   earlier_held, normVars, fundingVars, mainVars, legacyVars>>

\* an iteration of the exchange loop that runs to its end
ExchangeCompletes ==
    /\ InLoop
    /\ \E raw \in RawResponses(CurrentExchange, MaxPositions - fetched) :
        LET positions == get_positions(CurrentExchange, raw)
        IN  /\ SetLocals(IterationCompletes(Locals, CurrentExchange, positions,
                                            selected_exchanges, days))
            /\ log' = Logged(log, [exchange |-> CurrentExchange,
                                   positions |-> positions, raised_at |-> 0])
            /\ fetched' = fetched + Len(raw)
    /\ exchange_index' = exchange_index + 1
    /\ UNCHANGED <<selected_exchanges, days, pc, earlier_held, normVars, fundingVars, mainVars, legacyVars>>

\* an iteration in which the funding step of the k-th position raises
FundingStepRaises ==
    /\ InLoop
    /\ \E raw \in RawResponses(CurrentExchange, MaxPositions - fetched) :
        LET positions == get_positions(CurrentExchange, raw)
        IN  \E k \in 1..Len(positions) :
            /\ SetLocals(IterationRaises(Locals, CurrentExchange, positions, k, days))
            /\ log' = Append(log, [exchange |-> CurrentExchange,
                                   positions |-> positions, raised_at |-> k])
            /\ fetched' = fetched + Len(raw)
    /\ exchange_index' = exchange_index + 1
    /\ UNCHANGED <<selected_exchanges, days, pc, earlier_held, normVars, fundingVars, mainVars, legacyVars>>

\* the loop is over: the dict of the locals is returned
Return ==
    /\ pc = "loop"
    /\ exchange_index = Len(selected_exchanges)
    /\ pc' = "returned"
    /\ UNCHANGED <<selected_exchanges, days, localVars, exchange_index, log,
                   fetched, earlier_held, normVars, fundingVars, mainVars, legacyVars>>

Next ==
    \/ StartRefresh
    \/ GetPositionsRaises
    \/ ExchangeCompletes
    \/ FundingStepRaises
    \/ Return

Spec == Init /\ [][Next]_vars

\* ---------------------------------------------------------- main run
\* update_dashboard_data has returned its dict to main
DashboardReturned == pc = "returned" /\ exchange_index = Len(selected_exchanges)

\* "Delta Exposure by Token": the toggle is read, the rows are built and
\* sorted
RenderDeltaTable ==
    /\ DashboardReturned
    /\ main_pc = "idle"
    /\ \E dollar \in BOOLEAN :
        /\ show_dollar_value' = dollar
        /\ delta_data' =
             IF DOMAIN delta_exposure # {}
             THEN DeltaTable(all_positions, delta_exposure, selected_exchanges, dollar)
             ELSE <<>>
    /\ main_pc' = "table"
    /\ UNCHANGED <<positions_by_token, arb_pending, arb_opportunities,
                   normVars, dashVars, fundingVars, legacyVars>>

\* "Cross-Exchange Arbitrage Positions": positions_by_token is filled
GroupPositionsByToken ==
    /\ main_pc = "table"
    /\ positions_by_token' = GroupByToken(all_positions, Len(all_positions))
    /\ arb_pending' = PairsToVisit(positions_by_token')
    /\ arb_opportunities' = <<>>
    /\ main_pc' = "pairs"
    /\ UNCHANGED <<show_dollar_value, delta_data, normVars, dashVars, fundingVars, legacyVars>>

\* one pass of the inner loop whose min(price1, price2) is 0: the division
\* raises ZeroDivisionError, which main does not catch
ArbPairDividesByZero ==
    /\ main_pc = "pairs"
    /\ arb_pending # <<>>
    /\ Min(Head(arb_pending).price1, Head(arb_pending).price2) = 0
    /\ main_pc' = "ZeroDivisionError"
    /\ UNCHANGED <<show_dollar_value, delta_data, positions_by_token, arb_pending,
                   arb_opportunities, normVars, dashVars, fundingVars, legacyVars>>

\* one pass of the inner loop: the spreads of one exchange pair
ArbPair ==
    /\ main_pc = "pairs"
    /\ arb_pending # <<>>
    /\ Min(Head(arb_pending).price1, Head(arb_pending).price2) # 0
    /\ \E fetch1, fetch2 \in FundingFetches :
        arb_opportunities' =
            Append(arb_opportunities, ArbEntry(Head(arb_pending), fetch1, fetch2))
    /\ arb_pending' = Tail(arb_pending)
    /\ UNCHANGED <<show_dollar_value, delta_data, positions_by_token, main_pc,
                   normVars, dashVars, fundingVars, legacyVars>>

\* the loops are over: the candidates are shown
ArbComplete ==
    /\ main_pc = "pairs"
    /\ arb_pending = <<>>
    /\ main_pc' = "done"
    /\ UNCHANGED <<show_dollar_value, delta_data, positions_by_token, arb_pending,
                   arb_opportunities, normVars, dashVars, fundingVars, legacyVars>>

MainNext ==
    \/ StartRefresh
    \/ GetPositionsRaises
    \/ ExchangeCompletes
    \/ FundingStepRaises
    \/ Return
    \/ RenderDeltaTable
    \/ GroupPositionsByToken
    \/ ArbPairDividesByZero
    \/ ArbPair
    \/ ArbComplete

SpecMain == Init /\ [][MainNext]_vars

\* ------------------------------------------- display_funding_rates run
FundingExchange == FundingExchanges[fr_index + 1]

InFundingLoop == fr_pc = "loop" /\ fr_index < Len(FundingExchanges)

\* an account holding one position more than a chunk takes
LargeAccounts(exchange) ==
    {[i \in 1..(chunk_size + 1) |-> r] : r \in RawPositions(exchange)}

\* what get_cached_positions can find on the exchange: a few positions, or
\* (for the first account that holds any) a large account
AccountResponses(exchange, fetched_so_far) ==
    RawResponses(exchange, MaxPositions - fetched_so_far)
        \cup (IF fetched_so_far = 0 THEN LargeAccounts(exchange) ELSE {})

\* the script has loaded; display_funding_rates has not run yet
FundingInit ==
    /\ FundingIdle
    /\ DashIdle
    /\ NormIdle
    /\ MainIdle
    /\ LegacyIdle

\* display_funding_rates is called: days is read, the variables are
\* initialized
StartDisplay ==
    /\ fr_pc = "shown"
    /\ fr_days' \in DaysOptions
    /\ fr_all_positions' = <<>>
    /\ total_exposure' = 0
    /\ total_funding' = Zero
    /\ historical_funding_payments' = <<>>
    /\ fr_funding_intervals' = <<>>
    /\ token_metrics' = <<>>
    /\ fr_index' = 0
    /\ fr_pc' = "loop"
    /\ fr_fetched' = 0
    /\ UNCHANGED <<normVars, dashVars, mainVars, legacyVars>>

\* get_cached_positions raises (the credentials of Hyperliquid or RabbitX
\* are missing): the except clause continues with the next exchange
CachedPositionsRaise ==
    /\ InFundingLoop
    /\ FundingExchange \in {"hyperliquid", "rabbitx"}
    /\ fr_index' = fr_index + 1
    /\ UNCHANGED <<fr_days, fr_all_positions, total_exposure, total_funding,
                   historical_funding_payments, fr_funding_intervals,
                   token_metrics, fr_pc, fr_fetched, normVars, dashVars, mainVars, legacyVars>>

\* one iteration of the first loop: positions, exposure, funding payments
\* and the funding interval of the exchange
ExchangeFundingFetched ==
    /\ InFundingLoop
    /\ \E raw \in AccountResponses(FundingExchange, fr_fetched) :
        LET positions == get_positions(FundingExchange, raw)
            funding_payments ==
                calculate_funding_payments(FundingExchange, positions, Len(positions))
            chunks == NumChunks(Len(positions))
        IN  /\ fr_all_positions' = fr_all_positions \o positions
            /\ total_exposure' = total_exposure + ExposureSum(positions)
            /\ historical_funding_payments' =
                 IF chunks > 0
                 THEN DictUpdate(historical_funding_payments, funding_payments)
                 ELSE historical_funding_payments
            /\ total_funding' =
                 IF chunks > 0
                 THEN FloatAdd(total_funding,
                        FloatMul(FromInt(chunks),
                                 SumValues(funding_payments, DOMAIN funding_payments)))
                 ELSE total_funding
            /\ fr_fetched' = Min(MaxPositions, fr_fetched + Len(raw))
    /\ fr_funding_intervals' =
         [e \in DOMAIN fr_funding_intervals \cup {FundingExchange} |->
            IF e = FundingExchange THEN funding_intervals(Lower(FundingExchange))
            ELSE fr_funding_intervals[e]]
    /\ fr_index' = fr_index + 1
    /\ UNCHANGED <<fr_days, token_metrics, fr_pc, normVars, dashVars, mainVars, legacyVars>>

\* the per-token metrics of the positions of all_positions
ComputeTokenMetrics ==
    /\ fr_pc = "loop"
    /\ fr_index = Len(FundingExchanges)
    /\ token_metrics' =
         [i \in 1..Len(fr_all_positions) |->
            TokenMetric(fr_all_positions[i], historical_funding_payments,
                        fr_funding_intervals, fr_days)]
    /\ fr_pc' = "shown"
    /\ UNCHANGED <<fr_days, fr_all_positions, total_exposure, total_funding,
                   historical_funding_payments, fr_funding_intervals, fr_index,
                   fr_fetched, normVars, dashVars, mainVars, legacyVars>>

FundingNext ==
    \/ StartDisplay
    \/ CachedPositionsRaise
    \/ ExchangeFundingFetched
    \/ ComputeTokenMetrics

SpecFunding == FundingInit /\ [][FundingNext]_vars

\* ------------------------ display_funding_rates (funding_rates.py) run
\* positions of the selected exchange
LegacyPositions == lg_cached[lg_selected_exchange]

LegacyInit ==
    /\ LegacyIdle
    /\ DashIdle
    /\ NormIdle
    /\ FundingIdle
    /\ MainIdle

\* the page is drawn: the selectors are read, positions and funding
\* payments of the selected exchange are fetched.  get_positions is cached,
\* so every call of this run for an exchange returns the same list.  A
\* rerun of the script starts from new locals; one run is followed
LegacyFetch ==
    /\ lg_pc = "idle"
    /\ lg_days' \in DaysOptions
    /\ lg_selected_exchange' \in LegacyExchanges
    /\ \E bybit \in LegacyRawResponses("bybit", MaxPositions) :
        \E binance \in LegacyRawResponses("binance", MaxPositions - Len(bybit)) :
            lg_cached' = [e \in LegacyExchanges |->
                            IF e = "bybit" THEN get_positions("bybit", bybit)
                            ELSE get_positions("binance", binance)]
    /\ lg_funding_payments' =
         calculate_funding_payments(lg_selected_exchange',
                                    lg_cached'[lg_selected_exchange'],
                                    Len(lg_cached'[lg_selected_exchange']))
    /\ lg_total_exposure' = 0
    /\ lg_total_funding' = Zero
    /\ lg_daily_funding' = Zero
    /\ lg_delta_exposure' = <<>>
    /\ lg_delta_data' = <<>>
    /\ lg_token_metrics' = <<>>
    /\ lg_pc' = "fetched"
    /\ UNCHANGED <<normVars, dashVars, fundingVars, mainVars>>

\* positions or funding_payments is empty: "No open positions found"
LegacyNothingToShow ==
    /\ lg_pc = "fetched"
    /\ LegacyPositions = <<>> \/ DOMAIN lg_funding_payments = {}
    /\ lg_pc' = "shown"
    /\ UNCHANGED <<lg_selected_exchange, lg_days, lg_cached, lg_funding_payments,
                   lg_total_exposure, lg_total_funding, lg_daily_funding,
                   lg_delta_exposure, lg_delta_data, lg_token_metrics,
                   normVars, dashVars, fundingVars, mainVars>>

\* the summary metrics and the delta exposure table
LegacySummary ==
    /\ lg_pc = "fetched"
    /\ LegacyPositions # <<>> /\ DOMAIN lg_funding_payments # {}
    /\ lg_total_exposure' = ExposureSum(LegacyPositions)
    /\ lg_total_funding' = SumValues(lg_funding_payments, DOMAIN lg_funding_payments)
    /\ lg_daily_funding' = FloatDiv(lg_total_funding', FromInt(lg_days))
    /\ lg_delta_exposure' = LegacyDeltaExposure(lg_cached)
    /\ lg_delta_data' = LegacyDeltaTable(lg_cached, lg_delta_exposure')
    /\ lg_pc' = "summary"
    /\ UNCHANGED <<lg_selected_exchange, lg_days, lg_cached, lg_funding_payments,
                   lg_token_metrics, normVars, dashVars, fundingVars, mainVars>>

\* the per-token metrics of all positions
LegacyTokenMetrics ==
    /\ lg_pc = "summary"
    /\ \A i \in DOMAIN LegacyPositions :
          ~LegacyApyDividesByZero(LegacyPositions[i], lg_funding_payments)
    /\ lg_token_metrics' =
         [i \in DOMAIN LegacyPositions |->
            LegacyTokenMetric(LegacyPositions[i], lg_funding_payments, lg_days)]
    /\ lg_pc' = "shown"
    /\ UNCHANGED <<lg_selected_exchange, lg_days, lg_cached, lg_funding_payments,
                   lg_total_exposure, lg_total_funding, lg_daily_funding,
                   lg_delta_exposure, lg_delta_data, normVars, dashVars,
                   fundingVars, mainVars>>

\* the per-token metrics reach a position whose APY divides by a notional
\* of 0: ZeroDivisionError ends the run
LegacyTokenMetricsRaise ==
    /\ lg_pc = "summary"
    /\ \E i \in DOMAIN LegacyPositions :
          LegacyApyDividesByZero(LegacyPositions[i], lg_funding_payments)
    /\ lg_pc' = "ZeroDivisionError"
    /\ UNCHANGED <<lg_selected_exchange, lg_days, lg_cached, lg_funding_payments,
                   lg_total_exposure, lg_total_funding, lg_daily_funding,
                   lg_delta_exposure, lg_delta_data, lg_token_metrics,
                   normVars, dashVars, fundingVars, mainVars>>

LegacyNext ==
    \/ LegacyFetch
    \/ LegacyNothingToShow
    \/ LegacySummary
    \/ LegacyTokenMetrics
    \/ LegacyTokenMetricsRaise

SpecLegacyFunding == LegacyInit /\ [][LegacyNext]_vars

\* ------------------------------------------------- DataProcessor calls
\* tokens the input strings are built from: base tokens, multiplier
\* tokens, quote suffixes, rename keys and non-standard pieces
Vocabulary ==
    { <<"B","T","C">>, <<"P","E","P","E">>, <<"b","t","c">>, <<"X">>,
      sk, s1000, s1M, s1000000, <<"1","0","0">>, <<"0">>,
      <<"/">> \o sUSDT \o <<":">> \o sUSDT, <<":">> \o sUSDT,
      <<"/">> \o sUSDT, <<"-">> \o sUSDT, sUSDT, <<"-","S","W","A","P">>,
      <<"-">> \o sUSD, <<"/">> \o sUSD, sUSD, <<"U","S">>, <<"-">>,
      sSOLAYER, sTRUMPOFFICIAL }

NoResult == [called |-> FALSE]

NormInit ==
    /\ sym = <<>>
    /\ ntok = 0
    /\ norm = NoResult
    /\ DashIdle
    /\ FundingIdle
    /\ MainIdle
    /\ LegacyIdle

\* the caller extends the ticker by one token
AppendToken ==
    /\ ntok < MaxTokens
    /\ \E t \in Vocabulary :
        /\ sym' = sym \o t
        /\ ntok' = ntok + 1
    /\ norm' = NoResult
    /\ UNCHANGED <<dashVars, fundingVars, mainVars, legacyVars>>

\* one call of normalize_symbol and extract_price_multiplier on the same
\* ticker, and normalize_symbol again on its result
CallNormalizer ==
    /\ norm = NoResult
    /\ norm' = [called |-> TRUE,
                symbol |-> normalize_symbol(sym),
                branch |-> NormalizeBranch(NormalizeCleaned(sym)),
                multiplier |-> extract_price_multiplier(sym),
                again |-> normalize_symbol(normalize_symbol(sym))]
    /\ UNCHANGED <<sym, ntok>>
    /\ UNCHANGED <<dashVars, fundingVars, mainVars, legacyVars>>

NormNext ==
    \/ AppendToken
    \/ CallNormalizer

SpecNorm == NormInit /\ [][NormNext]_vars

\* ---------------------------------------- update_dashboard_data claims
RECURSIVE SumFn(_, _)
SumFn(f, S) ==
    IF S = {} THEN 0
    ELSE LET x == CHOOSE y \in S : TRUE IN f[x] + SumFn(f, S \ {x})

\* the locals a call of update_dashboard_data ends with when the exchanges
\* deliver entries[1..n], starting from fresh locals
RECURSIVE Replay(_, _, _, _)
Replay(entries, n, selected, d) ==
    IF n = 0 THEN FreshLocals
    ELSE LET L == Replay(entries, n - 1, selected, d)
             en == entries[n]
         IN  IF en.raised_at = 0
             THEN IterationCompletes(L, en.exchange, en.positions, selected, d)
             ELSE IterationRaises(L, en.exchange, en.positions, en.raised_at, d)

\* the log of this refresh with every failing exchange delivering nothing
LogWithFailuresEmptied ==
    SelectSeq(log, LAMBDA en : en.raised_at = 0)

\* the result of the refresh in which the failing exchanges returned no
\* positions
ReferenceResult ==
    Replay(LogWithFailuresEmptied, Len(LogWithFailuresEmptied),
           selected_exchanges, days)

\* C1: for every token of delta_exposure, total_delta equals the sum of
\* the token's per-exchange deltas.
C1_TotalDeltaIsSumOfExchangeDeltas ==
    \A t \in DOMAIN delta_exposure :
        delta_exposure[t].total_delta =
            SumFn(delta_exposure[t].exchanges, DOMAIN delta_exposure[t].exchanges)

\* C2: the signed delta of every position is positive when the position is
\* long and negative when it is short, on every exchange.
C2_DeltaSignFollowsSide ==
    \A i \in DOMAIN all_positions :
        LET p == all_positions[i]
        IN  /\ p.side = "long" => position_delta(p) > 0
            /\ p.side = "short" => position_delta(p) < 0

\* C5: when an exchange raises during a refresh, the other exchanges are
\* still processed: all_positions and delta_exposure are those of the
\* refresh in which the failing exchange returned no positions.
C5_OtherExchangesUnaffected ==
    pc = "returned" =>
        /\ all_positions = ReferenceResult.all_positions
        /\ delta_exposure = ReferenceResult.delta_exposure

\* an exchange raised in a funding step, another one was processed to its end
C5_Witness ==
    /\ pc = "returned"
    /\ \E i \in DOMAIN log : log[i].raised_at > 0
    /\ \E j \in DOMAIN log : log[j].raised_at = 0
    /\ all_positions # <<>>

\* C6: an exchange that fails part-way contributes an empty result set:
\* every returned total, all_positions and delta_exposure equal those of
\* the refresh in which that exchange delivered an empty position list.
C6_FailedExchangeContributesNothing ==
    pc = "returned" => Locals = ReferenceResult

\* C7: the snapshot a refresh builds and returns depends only on the data
\* fetched in that refresh: at every point of the refresh, and when it has
\* returned, the locals are what a run from fresh locals over this
\* refresh's deliveries yields, whatever earlier refreshes held.
C7_SnapshotFromLatestRefreshOnly ==
    Locals = Replay(log, Len(log), selected_exchanges, days)

\* an earlier refresh returned positions, the latest one holds none
C7_Witness ==
    /\ pc = "returned"
    /\ earlier_held
    /\ all_positions = <<>>
    /\ delta_exposure = <<>>

\* the funding interval of an exchange, in hours: 1 for Hyperliquid and
\* RabbitX, 8 for the others
NativeIntervalHours(exchange) ==
    IF exchange \in {"hyperliquid", "rabbitx"} THEN 1 ELSE 8

\* C8: for a position with non-empty funding history, funding PnL =
\* notional * mean(rates) * (days*24/interval_hours) * (+1 long, -1 short),
\* notional = |size * current_price|; notional 10000, rate 0.0001, 7 days,
\* 8h interval give 21 periods and funding PnL 21.
C8_FundingPnlFormula ==
    /\ \A i \in DOMAIN all_positions :
         LET p == all_positions[i]
             h == p.funding_history
             notional == Abs(p.size * p.current_price)
             sign == IF p.side = "long" THEN 1 ELSE -1
         IN  h # <<>> =>
               p.funding_pnl[1] * Len(h) * NativeIntervalHours(p.exchange)
                 = p.funding_pnl[2] * notional * SumSeq(h) * days * 24 * sign
    /\ funding_pnl("binance",
                   [size |-> 1, current_price |-> 10000, side |-> "long",
                    rates |-> <<1>>], 7) = FromInt(21 * 10000)

\* a long and a short position with funding history were processed
C8_Witness ==
    /\ pc = "returned"
    /\ \E i \in DOMAIN all_positions :
         /\ all_positions[i].funding_history # <<>>
         /\ all_positions[i].side = "short"
         /\ all_positions[i].funding_pnl # Zero

\* calculate_funding_payments' figure for a position of the snapshot, from
\* the history update_dashboard_data fetched for it
PaymentOf(p) == FromInt(PaymentSum(p, p.funding_history))

\* the number of funding periods update_dashboard_data assumes
PeriodsInTimeframe(p) == Rat(days * 24, funding_intervals(p.exchange))

\* C28: for a position with unsigned size and a non-empty funding history,
\* average rate times periods (update_dashboard_data) and the sum of rate
\* times notional (calculate_funding_payments) are equal when the history
\* holds exactly days*24/interval_hours points, and otherwise stand in the
\* ratio periods : points; they differ for some position.
C28_AverageTimesPeriodsVsSum ==
    \A i \in DOMAIN all_positions :
        LET p == all_positions[i]
            points == Len(p.funding_history)
        IN  (p.size >= 0 /\ points > 0) =>
              /\ RatMul(p.funding_pnl, FromInt(points))
                    = RatMul(PaymentOf(p), PeriodsInTimeframe(p))
              /\ PeriodsInTimeframe(p) = FromInt(points)
                    => p.funding_pnl = PaymentOf(p)

\* one position whose history has as many points as the window has
\* periods, with equal non-zero figures, and one for which the figures differ
C28_Witness ==
    /\ pc = "returned"
    /\ \E i \in DOMAIN all_positions :
         LET p == all_positions[i]
         IN  /\ p.size > 0
             /\ PeriodsInTimeframe(p) = FromInt(Len(p.funding_history))
             /\ p.funding_pnl = PaymentOf(p)
             /\ p.funding_pnl # Zero
    /\ \E j \in DOMAIN all_positions :
         LET q == all_positions[j]
         IN  /\ q.size > 0
             /\ q.funding_history # <<>>
             /\ PeriodsInTimeframe(q) # FromInt(Len(q.funding_history))
             /\ q.funding_pnl # PaymentOf(q)

\* sum of f(p) over the positions
RECURSIVE SumPositions(_, _)
SumPositions(f(_), positions) ==
    IF positions = <<>> THEN Zero
    ELSE RatAdd(f(Head(positions)), SumPositions(f, Tail(positions)))

\* exchange_metrics[exchange] of main's Exchange Overview, from the
\* all_positions of the snapshot
exchange_metrics(positions, exchange) ==
    LET exchange_positions == SelectSeq(positions, LAMBDA p : p.exchange = exchange)
    IN  [total_value |->
             SumPositions(LAMBDA p : FromInt(Abs(p.size * p.current_price)),
                          exchange_positions),
         delta |->
             SumPositions(LAMBDA p : FromInt(p.size * p.current_price
                                 * (IF Lower(p.side) = "long" THEN 1 ELSE -1)),
                          exchange_positions),
         funding_pnl |-> SumPositions(LAMBDA p : p.funding_pnl, exchange_positions),
         position_count |-> Len(exchange_positions)]

\* the rollups of the selected exchanges, added up field by field
RollupTotal(field) ==
    LET exchanges == {Lower(e) : e \in Range(selected_exchanges)}
    IN  SumOver([e \in exchanges |-> exchange_metrics(all_positions, e)[field]],
                exchanges)

\* C29: when update_dashboard_data has returned, whichever exchanges
\* failed, total_delta, total_position_value and total_funding_pnl equal
\* the sums over the selected exchanges of the per-exchange delta, total
\* value and funding PnL computed from all_positions.
C29_TotalsAgreeWithRollups ==
    pc = "returned" =>
        /\ FromInt(total_delta) = RollupTotal("delta")
        /\ FromInt(total_position_value) = RollupTotal("total_value")
        /\ total_funding_pnl = RollupTotal("funding_pnl")

\* C10: when a position's funding history is empty, the funding PnL
\* recorded for it is a marker distinguishable from a computed zero.
C10_EmptyHistoryMarkedUnavailable ==
    \A i \in DOMAIN all_positions :
        all_positions[i].funding_history = <<>> =>
            all_positions[i].funding_pnl # Zero

\* ------------------------------------------ display_funding_rates claims
\* C9: normalized_pnl = raw_pnl / (8 / interval_hours): raw/8 on the 1h
\* exchanges (Hyperliquid, RabbitX), raw on the 8h exchanges, and the APY
\* shown is normalized / notional * (1095 / (days*24/8)) * 100, computed
\* from the normalized value.
C9_FundingNormalizedTo8h ==
    \A i \in DOMAIN token_metrics :
        LET row == token_metrics[i]
            raw == row.raw_funding_pnl
            normalized == row.normalized_funding_pnl
            notional == row.notional_size
        IN  /\ row.exchange \in {"hyperliquid", "rabbitx"} =>
                 normalized = (IF raw = NaN THEN NaN ELSE Rat(raw[1], raw[2] * 8))
            /\ row.exchange \notin {"hyperliquid", "rabbitx"} => normalized = raw
            /\ (normalized # Zero /\ notional # 0) =>
                 row.funding_apy =
                    (IF normalized = NaN THEN NaN
                     ELSE Rat(normalized[1] * 1095 * 100,
                              normalized[2] * notional * fr_days * 3))

\* a Hyperliquid row with a funding payment, and an 8h row with one
C9_Witness ==
    /\ fr_pc = "shown"
    /\ \E i \in DOMAIN token_metrics :
         /\ token_metrics[i].exchange = "hyperliquid"
         /\ token_metrics[i].raw_funding_pnl \notin {Zero, NaN}
         /\ token_metrics[i].funding_apy \notin {Zero, NaN}
    /\ \E i \in DOMAIN token_metrics :
         /\ token_metrics[i].exchange \in {"bybit", "binance", "okx"}
         /\ token_metrics[i].raw_funding_pnl \notin {Zero, NaN}

\* the payments of one exchange for which funding data was available
AvailablePayments(exchange) ==
    LET positions == SelectSeq(fr_all_positions, LAMBDA p : p.exchange = exchange)
        F == calculate_funding_payments(exchange, positions, Len(positions))
    IN  SumValues(F, {k \in DOMAIN F : F[k] # NaN})

RECURSIVE AvailablePaymentsUpTo(_)
AvailablePaymentsUpTo(n) ==
    IF n = 0 THEN Zero
    ELSE RatAdd(AvailablePaymentsUpTo(n - 1), AvailablePayments(FundingExchanges[n]))

\* C11: a symbol whose funding data is missing is excluded from the
\* aggregates: the total funding equals the sum of the payments of the
\* remaining symbols.
C11_MissingFundingExcludedFromTotal ==
    total_funding = AvailablePaymentsUpTo(Len(FundingExchanges))

\* sum(funding_payments.values()) of each exchange's payments, added once
\* per exchange
RECURSIVE PaymentsOncePerExchange(_)
PaymentsOncePerExchange(n) ==
    IF n = 0 THEN Zero
    ELSE LET exchange == FundingExchanges[n]
             positions == SelectSeq(fr_all_positions, LAMBDA p : p.exchange = exchange)
             F == calculate_funding_payments(exchange, positions, Len(positions))
         IN  FloatAdd(PaymentsOncePerExchange(n - 1), SumValues(F, DOMAIN F))

\* C30: however many positions an exchange holds, total_funding holds the
\* funding payments of each processed exchange once, and total_exposure the
\* notional of each collected position once.
C30_TotalsAddedOncePerExchange ==
    /\ total_exposure = ExposureSum(fr_all_positions)
    /\ total_funding = PaymentsOncePerExchange(Len(FundingExchanges))

\* --------------------------------------------------- get_positions claims
\* C19: every position returned by get_positions carries
\* symbol = normalize_symbol(raw_symbol), on each of the five exchanges.
C19_SymbolIsNormalizedRawSymbol ==
    \A i \in DOMAIN log : \A j \in DOMAIN log[i].positions :
        log[i].positions[j].symbol = normalize_symbol(log[i].positions[j].raw_symbol)

C12_ZeroPriceSpreadShortCircuits ==
    main_pc # "ZeroDivisionError"

\* the exchanges holding token in all_positions
HoldersOf(token) ==
    {all_positions[i].exchange :
        i \in {j \in DOMAIN all_positions : all_positions[j].symbol = token}}

\* the entries of arb_opportunities for token and the exchanges e1, e2
EntriesFor(token, e1, e2) ==
    {k \in DOMAIN arb_opportunities :
        /\ arb_opportunities[k].Token = token
        /\ arb_opportunities[k].ExchangePair \in
              {<<Capitalize(e1), Capitalize(e2)>>, <<Capitalize(e2), Capitalize(e1)>>}}

C15_PriceSpreadFormula ==
    /\ \A k \in DOMAIN arb_opportunities :
          LET e == arb_opportunities[k]
              lo == IF e.price1 <= e.price2 THEN e.price1 ELSE e.price2
              hi == IF e.price1 <= e.price2 THEN e.price2 ELSE e.price1
          IN  lo > 0 =>
                /\ e.PriceSpread = RoundTo(Rat((hi - lo) * 10000, lo), 10)
                /\ e.PriceSpread >= 0
                /\ price_spread_bps(e.price1, e.price2)
                      = price_spread_bps(e.price2, e.price1)
    /\ price_spread_bps(100000, 100050) = FromInt(5)
    /\ price_spread_bps(100050, 100000) = FromInt(5)

\* a candidate of two different positive prices
C15_Witness ==
    \E k \in DOMAIN arb_opportunities :
        /\ arb_opportunities[k].price1 > 0
        /\ arb_opportunities[k].price2 > 0
        /\ arb_opportunities[k].price1 # arb_opportunities[k].price2
        /\ arb_opportunities[k].PriceSpread > 0

\* the fetch failed or returned no rows
NoFundingData(fetch) == fetch.raised \/ fetch.frame = <<>>

\* C16: when the fetch of the latest funding rate fails or returns no data
\* for one exchange of a pair, the funding-rate spread of the pair is 0.
C16_FailedFetchGivesZeroSpread ==
    \A k \in DOMAIN arb_opportunities :
        (NoFundingData(arb_opportunities[k].fetch1)
            \/ NoFundingData(arb_opportunities[k].fetch2))
        => arb_opportunities[k].FundingRateSpread = 0

\* all_positions had the exchanges been polled in the order of selection
RECURSIVE PolledInOrder(_)
PolledInOrder(selection) ==
    IF selection = <<>> THEN <<>>
    ELSE SelectSeq(all_positions, LAMBDA p : p.exchange = Lower(Head(selection)))
         \o PolledInOrder(Tail(selection))

\* token and exchange pair of the candidates main lists for positions
CandidateLabels(positions) ==
    LET pairs == PairsToVisit(GroupByToken(positions, Len(positions)))
    IN  [k \in 1..Len(pairs) |->
            <<pairs[k].token,
              <<Capitalize(pairs[k].exchange1), Capitalize(pairs[k].exchange2)>>>>]

\* C17: the candidates come in a fixed order: the same positions give the
\* same list whatever the order the exchanges were selected and polled in.
C17_CandidateOrderIndependentOfSelection ==
    main_pc = "done" =>
        \A selection \in Selections :
            (\A i \in DOMAIN all_positions :
                \E s \in DOMAIN selection :
                    Lower(selection[s]) = all_positions[i].exchange)
            => CandidateLabels(PolledInOrder(selection))
                 = [k \in DOMAIN arb_opportunities |->
                      <<arb_opportunities[k].Token, arb_opportunities[k].ExchangePair>>]

\* C18: the rows of the delta table are in non-increasing order of
\* |total_delta| of their tokens.
C18_RowsByDescendingAbsTotalDelta ==
    \A i \in DOMAIN delta_data :
        i + 1 \in DOMAIN delta_data =>
            Abs(delta_exposure[delta_data[i].Token].total_delta)
                >= Abs(delta_exposure[delta_data[i + 1].Token].total_delta)

\* ------------------------------------------------- funding APY claims
\* the 8h-normalized APY of funding_rates_updated is 0 for a notional of 0
UpdatedApyZeroForZeroNotional ==
    \A i \in DOMAIN token_metrics :
        token_metrics[i].notional_size = 0 => token_metrics[i].funding_apy = Zero

\* C13: the funding APY of a position is 0 whenever its notional is 0, in
\* every APY computation, so that no division by zero occurs.
C13_ZeroNotionalGivesZeroApy ==
    /\ UpdatedApyZeroForZeroNotional
    /\ lg_pc # "ZeroDivisionError"
    /\ \A i \in DOMAIN lg_token_metrics :
          lg_token_metrics[i].notional_size = 0
              => lg_token_metrics[i].funding_apy = Zero

\* ------------------------------------------------- DataProcessor claims
\* the multiplier the claim assigns to the rule normalize_symbol applied
BranchMultiplier(b) ==
    CASE b \in {"prefix1000", "prefixk", "suffix1000"} -> 1000
      [] b \in {"prefix1000000", "prefix1M", "suffix1M", "suffix1000000"} -> 1000000
      [] OTHER -> 1

\* C3: extract_price_multiplier(s) differs from 1 exactly when
\* normalize_symbol(s) removed a multiplier token, and its value is the one
\* of the token removed (1000 for '1000' or 'k', 1000000 for '1M' or
\* '1000000'), for every input string s.
C3_MultiplierMatchesNormalize ==
    norm.called => norm.multiplier = BranchMultiplier(norm.branch)

\* C4: normalize_symbol is idempotent: for every input string s,
\* normalize_symbol(normalize_symbol(s)) = normalize_symbol(s).
C4_NormalizeIdempotent ==
    norm.called => norm.again = norm.symbol

\* the tokens the claims below build tickers from
sLowerBtc == <<"b","t","c">>
s100X == <<"1","0","0","X">>
BaseTokens == {sBTC, sPEPE, <<"X">>, sSOLAYER}
PrefixTokens == {s1000000, s1M, s1000}
PrefixMultiplier(p) == IF p = s1000 THEN 1000 ELSE 1000000
QuoteSuffixes == Range(NormalizeVariations)
Separators == {"/", ":", "-"}
IsAlnum(s) == \A i \in DOMAIN s : s[i] \notin Separators
Digits == {"0","1","2","3","4","5","6","7","8","9"}

\* C21: a multiplier prefix is stripped only in front of an uppercase
\* token: '1000btc' (and '1Mbtc', '1000000btc') is returned unchanged, and
\* so is the non-standard numeric form '100X'.
C21_LowercaseRemainderKeepsPrefix ==
    (norm.called /\ sym \in {p \o sLowerBtc : p \in PrefixTokens} \cup {s100X})
        => norm.symbol = sym

\* C22: for every base token T and every prefix P of '1000000', '1M',
\* '1000', with or without a quote suffix X behind it,
\* normalize_symbol(P+T+X) = T and extract_price_multiplier(P+T+X) is
\* 1000000, 1000000, 1000 respectively.
C22_PrefixPriorityOrder ==
    norm.called =>
        \A p \in PrefixTokens, t \in BaseTokens, x \in QuoteSuffixes \cup {<<>>} :
            sym = p \o t \o x =>
                /\ norm.symbol = t
                /\ norm.multiplier = PrefixMultiplier(p)

C22_Witness ==
    /\ norm.called
    /\ sym = s1000000 \o sPEPE \o sUSD
    /\ norm.symbol = sPEPE
    /\ norm.multiplier = 1000000

\* C23: for every ticker starting with 'k': when it is longer than one
\* character and its second character is uppercase, normalize_symbol
\* removes the 'k' and the multiplier is 1000; a bare 'k' and a 'k'
\* followed by a lowercase character come back unchanged (up to the quote
\* suffix removed) with multiplier 1.
C23_KPrefixRule ==
    (norm.called /\ StartsWith(sym, sk)) =>
        IF Len(sym) > 1 /\ IsUpper(sym[2])
        THEN /\ norm.symbol = DropFirst(NormalizeCleaned(sym), 1)
             /\ norm.multiplier = 1000
        ELSE (Len(sym) = 1 \/ sym[2] \in {"b"}) =>
                /\ norm.symbol = NormalizeCleaned(sym)
                /\ norm.multiplier = 1

\* a multiplier prefix rule applies to the cleaned string c
HasMultiplierPrefix(c) ==
    \/ \E p \in PrefixTokens : StartsWith(c, p)
    \/ StartsWith(c, sk) /\ Len(c) > 1 /\ IsUpper(c[2])

C25_SuffixStrippedFromBase ==
    norm.called =>
        \A x \in QuoteSuffixes :
            (/\ EndsWith(sym, x)
             /\ Len(sym) > Len(x)
             /\ IsAlnum(DropLast(sym, Len(x)))) =>
                norm.symbol = normalize_symbol(DropLast(sym, Len(x)))

C25_Witness ==
    /\ norm.called
    /\ sym = sUSDT \o sBTC \o sUSDT
    /\ norm.symbol = sBTC

\* C26: whenever the cleaned string of a call contains SOLAYER the result
\* is LAYER, and whenever it contains TRUMPOFFICIAL (and not SOLAYER) the
\* result is TRUMP, also when a multiplier prefix or suffix was removed.
C26_RenameTableAlwaysApplied ==
    norm.called =>
        LET c == NormalizeCleaned(sym)
        IN  /\ Contains(c, sSOLAYER) => norm.symbol = sLAYER
            /\ (Contains(c, sTRUMPOFFICIAL) /\ ~Contains(c, sSOLAYER)) =>
                    norm.symbol = sTRUMP

\* C27: every call returns through one of the return statements with a
\* string and a multiplier of 1, 1000 or 1000000 (no exception), and a
\* ticker that matches no suffix variation, no multiplier rule and no
\* rename key comes back unchanged with multiplier 1.
C27_TotalAndPassThrough ==
    norm.called =>
        /\ norm.branch \in {"prefix1000000", "prefix1M", "prefix1000", "prefixk",
                             "suffix1000", "suffix1M", "suffix1000000",
                             "renameSOLAYER", "renameTRUMPOFFICIAL", "cleaned"}
        /\ norm.multiplier \in {1, 1000, 1000000}
        /\ (NormalizeCleaned(sym) = sym /\ norm.branch = "cleaned") =>
                norm.symbol = sym /\ norm.multiplier = 1

C27_Witness ==
    /\ norm.called
    /\ sym = <<>>
    /\ norm.symbol = <<>>
    /\ norm.multiplier = 1

====
